---- MODULE Spec2Model ----
(***************************************************************************)
(* Progression and quest scoring engine of RPG-Journal.                    *)
(*                                                                         *)
(* Numbers.  JavaScript numbers are modelled by integers:                  *)
(*   - level is an integer, as in the code (Math.floor);                   *)
(*   - xp is in tenths of a point (XpDen = 1.0), because the number the    *)
(*     language model delivers as xpGained need not be whole;              *)
(*   - stat values and stat changes are in thousandths (Milli = 1.0);      *)
(*   - weights of the server's calculateStatWeights are exact rationals    *)
(*     over the denominator WeightDen;                                     *)
(*   - quest scores are exact rationals over the denominator ScoreDen.     *)
(* A number that is NaN in the code is stored by JSON.stringify as null in *)
(* the jsonb column; the model keeps it as the value Null.  A field that   *)
(* the stored character does not have reads as Undefined.                  *)
(***************************************************************************)
EXTENDS Integers, Sequences, FiniteSets, TLC

VARIABLES
    build,      \* which completion handler the running server registers
    character,  \* users.character of the one user: level, xp, stats, achievements
    quests,     \* the user's rows of the quests table: id -> status, completedAt, difficulty
    now,        \* the wall clock, in days
    calls,      \* number of requests handled so far
    journals,   \* number of rows of the journals table
    last,       \* the last request handled: its kind, its input, its response, the character before it
    pc,         \* SpecConc: per in-flight request, where its handler stands
    req,        \* SpecConc: per in-flight request, its input and the character it read
    arg,        \* pure-function specifications: the input
    res         \* pure-function specifications: the result

srvVars == <<build, character, quests, now, calls, journals, last>>
concVars == <<pc, req>>
fnVars == <<arg, res>>
vars == <<build, character, quests, now, calls, journals, last, pc, req, arg, res>>

----------------------------------------------------------------------------
(* Bounds of the model *)

MaxCalls == 2        \* requests handled in one behaviour
MaxTicks == 2        \* clock advances in one behaviour
NumQuests == 2       \* quest rows of the user

----------------------------------------------------------------------------
(* Program constants *)

BASE_XP == 50
MAX_STAT_VALUE == 20
MIN_STAT_VALUE == 1
RecentDays == 7
TickDays == 4
maxRetries == 3
RetryBaseDelay == 1000

Milli == 10 * 100
XpDen == Milli \div 100
WeightDen == Milli * Milli
Null == -1
Undefined == -2

RpgStats == {"strength", "dexterity", "constitution", "intelligence", "wisdom", "charisma"}
WellnessStats == {"wellness", "social", "growth", "achievement"}

KeywordCount == [strength |-> 6, dexterity |-> 6, constitution |-> 5,
                 intelligence |-> 5, wisdom |-> 5, charisma |-> 5]

Min(a, b) == IF a < b THEN a ELSE b
Max(a, b) == IF a > b THEN a ELSE b
Clamp(lo, hi, x) == Max(lo, Min(hi, x))

\* Math.round of the rational n / d (d > 0): floor(n/d + 1/2)
Round(n, d) == (2 * n + d) \div (2 * d)

\* character[f], undefined when the stored object has no such field
Field(ch, f) == IF f \in DOMAIN ch THEN ch[f] ELSE Undefined

\* v || d for a number v: undefined, null, NaN and 0 are falsy
OrElse(v, d) == IF v \in {Undefined, Null, 0} THEN d ELSE v

IsNumber(v) == v \notin {Undefined, Null}

\* character.achievements || []
AchievementsOf(ch) == IF "achievements" \in DOMAIN ch THEN ch.achievements ELSE <<>>

RECURSIVE Pow(_, _)
Pow(b, e) == IF e <= 0 THEN 1 ELSE b * Pow(b, e - 1)

\* the sum of f over D: .reduce((sum, x) => sum + x, 0)
RECURSIVE SumOver(_, _)
SumOver(f, D) ==
    IF D = {} THEN 0
    ELSE LET x == CHOOSE y \in D : TRUE IN f[x] + SumOver(f, D \ {x})

----------------------------------------------------------------------------
(* Analyses (server/openai.ts analyzeEntry, server/routes.ts Analysis)     *)
(*   mood           the mood label                                         *)
(*   kw             per stat, how many of its keywords occur in the tags   *)
(*   growthAreas    number of growth areas                                 *)
(*   insights       the insight strings                                    *)
(*   skillsImproved number of skills improved                              *)
(*   statChanges    stat name -> change, in thousandths                    *)

NoKeywords == [s \in RpgStats |-> 0]

\* the neutral analysis substituted when analyzeEntry throws
FallbackAnalysis ==
    [mood |-> "neutral", kw |-> NoKeywords, growthAreas |-> 0, insights |-> <<>>,
     skillsImproved |-> 0,
     statChanges |-> [s \in WellnessStats |-> 0]]

\* a positive entry about exercise: one insight, one skill improved, no growth areas
ExampleAnalysis ==
    [mood |-> "positive", kw |-> [NoKeywords EXCEPT !["constitution"] = 1], growthAreas |-> 0,
     insights |-> <<"i3">>, skillsImproved |-> 1,
     statChanges |-> [constitution |-> 1000]]

\* what the language model may deliver
ProviderAnalyses ==
    { ExampleAnalysis,
      [mood |-> "positive", kw |-> NoKeywords, growthAreas |-> 1, insights |-> <<>>,
       skillsImproved |-> 0,
       statChanges |-> [wellness |-> 500, social |-> 0, growth |-> -300, achievement |-> 1000]],
      [mood |-> "positive", kw |-> [NoKeywords EXCEPT !["wisdom"] = 5], growthAreas |-> 0,
       insights |-> <<"i1", "i2">>, skillsImproved |-> 1,
       statChanges |-> [wisdom |-> 1000, strength |-> -500]],
      [mood |-> "negative", kw |-> [NoKeywords EXCEPT !["constitution"] = 2], growthAreas |-> 2,
       insights |-> <<>>, skillsImproved |-> 0,
       statChanges |-> [constitution |-> -1000]],
      [mood |-> "neutral", kw |-> NoKeywords, growthAreas |-> 0, insights |-> <<>>,
       skillsImproved |-> 0,
       statChanges |-> [wisdom |-> 1500]] }

\* analyzeEntry: a stat change outside [-1, 1] makes it throw
analyzeEntry(raw) ==
    IF \E s \in DOMAIN raw.statChanges :
          raw.statChanges[s] < -Milli \/ raw.statChanges[s] > Milli
    THEN "throws"
    ELSE "ok"

----------------------------------------------------------------------------
(* server/routes.ts: calculateStatWeights.  The weight of a stat is        *)
(*   (1 + matches*0.1) * mood * insight * (1 + level*0.02)                 *)
(* = (10 + matches)/10 * mood/100 * insight/10 * (100 + 2*level)/100,      *)
(* returned as its numerator over WeightDen.                               *)

MoodFactor(mood, stat) ==
    IF mood = "positive" THEN (IF stat \in {"charisma", "wisdom"} THEN 110 ELSE 100)
    ELSE IF mood = "negative"
         THEN (IF stat = "constitution" THEN 110 ELSE IF stat = "wisdom" THEN 105 ELSE 100)
         ELSE 100

InsightFactor(analysis, stat) ==
    IF Len(analysis.insights) > 0 /\ stat \in {"intelligence", "wisdom"} THEN 11 ELSE 10

calculateStatWeights(analysis, level) ==
    [stat \in RpgStats |->
        (10 + analysis.kw[stat]) * MoodFactor(analysis.mood, stat)
          * InsightFactor(analysis, stat) * (100 + 2 * level)]

----------------------------------------------------------------------------
(* server/routes.ts: updateCharacterProgress *)

\* Math.floor(Math.pow(xp / 1000, 0.8)): the k with k^1.25 <= xp/1000 < (k+1)^1.25;
\* LevelSteps[k] is the least xp, in tenths, with Math.pow(xp / 1000, 0.8) >= k
LevelSteps == <<10000, 23785, 39483, 56569, 74768, 93906, 113861, 134544>>

PowLevel(xp) == Cardinality({k \in 1..Len(LevelSteps) : xp >= LevelSteps[k]}) + 1

LinearLevel(xp) == (xp \div (1000 * XpDen)) + 1

\* a consistency bonus that weighs each recent achievement by how recent it is
calculateConsistencyBonus_byAge(ch, t) ==
    LET achievements == AchievementsOf(ch)
        days == [i \in 1..Len(achievements) |->
                   Max(0, RecentDays - (t - achievements[i].timestamp))]
    IN  SumOver(days, 1..Len(achievements))

calculateConsistencyBonus(ch, t) ==
    LET achievements == AchievementsOf(ch)
    IN  Cardinality({i \in 1..Len(achievements) :
                        t - achievements[i].timestamp <= RecentDays}) * 5

\* xpGain with a growth bonus of one growth area whatever analysis.growthAreas holds
XpGain_flatGrowth(ch, analysis, t) ==
    LET level == OrElse(Field(ch, "level"), 1)
        num == Pow(11, level - 1)
        den == Pow(10, level - 1)
        baseXP == Round(BASE_XP * num, den)
        perLevel == 10 + Len(analysis.insights) * 5 + analysis.skillsImproved * 8
    IN  XpDen * Round((baseXP + calculateConsistencyBonus(ch, t)) * den + perLevel * num, den)

\* xpGain = Math.round(baseXP + growthBonus + insightBonus + skillBonus + consistencyBonus)
\* with levelScaling = 1.1^(level-1) = 11^(level-1) / 10^(level-1)
XpGain(ch, analysis, t) ==
    LET level == OrElse(Field(ch, "level"), 1)
        num == Pow(11, level - 1)
        den == Pow(10, level - 1)
        baseXP == Round(BASE_XP * num, den)
        perLevel == analysis.growthAreas * 10 + Len(analysis.insights) * 5
                      + analysis.skillsImproved * 8
    IN  XpDen * Round((baseXP + calculateConsistencyBonus(ch, t)) * den + perLevel * num, den)

\* one entry of analysis.statChanges applied to a stat that the character has
StatAfterChange(cur, stat, change, weights, level) ==
    IF stat \notin DOMAIN weights
    THEN Null     \* change * undefined = NaN, kept through Math.min / Math.max
    ELSE LET weighted == (change * (weights[stat] \div Milli)) \div Milli
             bounded == (Clamp(-Milli, Milli, weighted) * (100 + 5 * level)) \div 100
             base == IF cur = Null THEN 0 ELSE cur
         IN  Clamp(1 * Milli, 10 * Milli, base + bounded)

StatsAfterAnalysis(ch, analysis) ==
    LET level == OrElse(Field(ch, "level"), 1)
        weights == calculateStatWeights(analysis, level)
    IN  [stat \in DOMAIN ch.stats |->
            IF stat \in DOMAIN analysis.statChanges
            THEN StatAfterChange(ch.stats[stat], stat, analysis.statChanges[stat],
                                 weights, level)
            ELSE ch.stats[stat]]

InsightAchievements(analysis, t) ==
    [i \in 1..Len(analysis.insights) |->
        [title |-> "New Insight", description |-> analysis.insights[i], timestamp |-> t]]

\* updateCharacterProgress storing only the achievements of this analysis
updateCharacterProgress_replacing(ch, analysis, t) ==
    LET newXp == OrElse(Field(ch, "xp"), 0) + XpGain(ch, analysis, t)
    IN  [level |-> PowLevel(newXp),
         xp |-> newXp,
         stats |-> StatsAfterAnalysis(ch, analysis),
         achievements |-> InsightAchievements(analysis, t)]

updateCharacterProgress(ch, analysis, t) ==
    LET newXp == OrElse(Field(ch, "xp"), 0) + XpGain(ch, analysis, t)
    IN  [level |-> PowLevel(newXp),
         xp |-> newXp,
         stats |-> StatsAfterAnalysis(ch, analysis),
         achievements |-> AchievementsOf(ch) \o InsightAchievements(analysis, t)]

----------------------------------------------------------------------------
(* server/openai.ts: generateQuests.  A raw quest is what the language     *)
(* model delivers: difficulty, xpReward and statRewards are whole numbers. *)

\* the quests the language model delivers for a journal entry
DeliveredQuests ==
    << [title |-> "Evening Walk", difficulty |-> 2, xpReward |-> 500,
        statRewards |-> [constitution |-> 5]],
       [title |-> "Call a Friend", difficulty |-> 7, xpReward |-> 120,
        statRewards |-> [charisma |-> 2]] >>

\* a quest without a truthy difficulty makes generateQuests throw
generateQuestsThrows(raw) == \E i \in 1..Len(raw) : raw[i].difficulty = 0

generateQuests(raw) ==
    [i \in 1..Len(raw) |->
        [title |-> raw[i].title,
         difficulty |-> Clamp(1, 5, raw[i].difficulty),
         xpReward |-> Clamp(50, 200, raw[i].xpReward),
         statRewards |-> [s \in DOMAIN raw[i].statRewards |->
                             Clamp(1, 3, raw[i].statRewards[s])]]]

\* quests.length of the quests a successful generation puts in the response
GeneratedCount == Len(generateQuests(DeliveredQuests))

----------------------------------------------------------------------------
(* server/routes.ts: generateQuestsWithRetry.  The provider generateQuests *)
(* fails at its first `failures` calls and delivers at the next one.       *)

\* the delay that would be waited after a failure of attempt `attempt`, in milliseconds
RetryDelay_constant(attempt) == RetryBaseDelay

\* Math.pow(2, attempt) * 1000
RetryDelay(attempt) == Pow(2, attempt) * RetryBaseDelay

\* the for loop from iteration `attempt` on; delays are the waits so far
RECURSIVE RetryFrom(_, _, _)
RetryFrom(attempt, failures, delays) ==
    IF attempt >= maxRetries
    THEN [ok |-> FALSE, attempts |-> attempt, delays |-> delays]      \* throw lastError
    ELSE IF attempt >= failures
    THEN [ok |-> TRUE, attempts |-> attempt + 1, delays |-> delays]   \* return await generateQuests
    ELSE IF attempt < maxRetries - 1
    THEN RetryFrom(attempt + 1, failures, Append(delays, RetryDelay(attempt)))
    ELSE RetryFrom(attempt + 1, failures, delays)

generateQuestsWithRetry(failures) == RetryFrom(0, failures, <<>>)

\* quest generation is not attempted when the analysis failed
NoGeneration == [ok |-> TRUE, attempts |-> 0, delays |-> <<>>]

----------------------------------------------------------------------------
(* server/openai.ts: calculateQuestCompletion.  A raw reward is what the   *)
(* language model delivers: xpGained (tenths), statUpdates (stat ->        *)
(* thousandths), achievements (strings).                                   *)

NoStats == [s \in {} |-> 0]

RawRewards ==
    { [xpGained |-> 1205, statUpdates |-> [wisdom |-> 500], achievements |-> <<"Quest Master">>],
      [xpGained |-> 5000, statUpdates |-> [wellness |-> 3000], achievements |-> <<>>],
      [xpGained |-> 100, statUpdates |-> [strength |-> -1000], achievements |-> <<>>] }

\* calculateQuestCompletion without the bounds on xpGained
calculateQuestCompletion_noClamp(raw) ==
    [xpGained |-> raw.xpGained,
     statUpdates |-> [s \in DOMAIN raw.statUpdates |-> Clamp(0, 2 * Milli, raw.statUpdates[s])],
     achievements |-> raw.achievements]

calculateQuestCompletion(raw) ==
    [xpGained |-> Clamp(50 * XpDen, 200 * XpDen, raw.xpGained),
     statUpdates |-> [s \in DOMAIN raw.statUpdates |-> Clamp(0, 2 * Milli, raw.statUpdates[s])],
     achievements |-> raw.achievements]

----------------------------------------------------------------------------
(* server/routes.ts: POST /api/quests/:id/complete *)

\* difficulty * 0.2 without the bounds, in tenths
DifficultyMultiplier_unbounded(difficulty) == 2 * difficulty

\* difficultyMultiplier = max(1, min(3, difficulty * 0.2)), in tenths
DifficultyMultiplier(difficulty) == Clamp(10, 30, 2 * difficulty)

\* character.level as a factor: undefined makes the product NaN, null counts as 0
LevelFactor(level) == IF level = Null THEN 0 ELSE level

\* the reward of the provider scaled by level and difficulty:
\* xpGained = Math.round(xpGained * (1 + level * 0.1) * difficultyMultiplier)
ScaledReward(reward, level, difficulty) ==
    LET dm == DifficultyMultiplier(OrElse(difficulty, 1))     \* quest.difficulty || 1
        lv == LevelFactor(level)
    IN  IF level = Undefined
        THEN [xpGained |-> Null,
              statUpdates |-> [s \in DOMAIN reward.statUpdates |-> Null],
              achievements |-> reward.achievements]
        ELSE [xpGained |-> XpDen * Round(reward.xpGained * (10 + lv) * dm, 100 * XpDen),
              statUpdates |-> [s \in DOMAIN reward.statUpdates |->
                  Clamp(-Milli, Milli, (reward.statUpdates[s] * (100 + 5 * lv) * dm) \div Milli)],
              achievements |-> reward.achievements]

\* rewards of the catch block: xpGained = Math.round(50 * (1 + level * 0.1))
FallbackReward(level) ==
    [xpGained |-> IF level = Undefined THEN Null
                  ELSE XpDen * Round(50 * (10 + LevelFactor(level)), 10),
     statUpdates |-> NoStats,
     achievements |-> <<>>]

RewardAchievements(reward, t) ==
    [i \in 1..Len(reward.achievements) |->
        [title |-> reward.achievements[i], timestamp |-> t]]

\* (character.stats[stat] || 1): a missing, null or zero stat reads as 1
StatOrOne(stats, stat) ==
    IF stat \in DOMAIN stats /\ stats[stat] # Null /\ stats[stat] # 0 THEN stats[stat] ELSE Milli

\* one entry of rewards.statUpdates applied:
\* Math.max(1, Math.min(10, (character.stats[stat] || 1) + change))
StatAfterReward(stats, stat, change) ==
    IF change = Null THEN Null
    ELSE Clamp(1 * Milli, 10 * Milli, StatOrOne(stats, stat) + change)

applyReward(ch, reward, t) ==
    LET newXp == IF reward.xpGained = Null THEN Null
                 ELSE OrElse(Field(ch, "xp"), 0) + reward.xpGained
    IN  [level |-> IF newXp = Null THEN Null ELSE LinearLevel(newXp),
         xp |-> newXp,
         stats |-> [s \in DOMAIN ch.stats \cup DOMAIN reward.statUpdates |->
                      IF s \in DOMAIN reward.statUpdates
                      THEN StatAfterReward(ch.stats, s, reward.statUpdates[s])
                      ELSE ch.stats[s]],
         achievements |-> AchievementsOf(ch) \o RewardAchievements(reward, t)]

MarkCompleted(qs, qid, t) ==
    IF qid \in DOMAIN qs
    THEN [qs EXCEPT ![qid] = [@ EXCEPT !.status = "completed", !.completedAt = t]]
    ELSE qs

\* the rewards the handler ends up with: "Quest not found" and a failure of the
\* provider are both thrown inside the try block whose catch substitutes the fallback
RewardsOfCompletion(ch, qs, qid, providerOk, raw) ==
    IF qid \in DOMAIN qs /\ providerOk
    THEN ScaledReward(calculateQuestCompletion(raw), Field(ch, "level"), qs[qid].difficulty)
    ELSE FallbackReward(Field(ch, "level"))

----------------------------------------------------------------------------
(* server/routes/quests.ts: POST /api/quests/:questId/complete and its     *)
(* updateCharacterProgress(userId, progress)                               *)

\* character.xp += progress.xpGained: undefined + x is NaN, null + x is x
updateCharacterProgress_quests(ch, progress, t) ==
    LET xp == Field(ch, "xp")
        newXp == IF xp = Undefined THEN Null
                 ELSE (IF xp = Null THEN 0 ELSE xp) + progress.xpGained
    IN  [level |-> IF newXp = Null THEN Null ELSE PowLevel(newXp),
         xp |-> newXp,
         stats |-> [s \in DOMAIN ch.stats |->
                      IF s \in DOMAIN progress.statUpdates
                      THEN (IF ch.stats[s] = Null THEN 0 ELSE ch.stats[s])
                              + progress.statUpdates[s]
                      ELSE ch.stats[s]],
         achievements |-> ch.achievements \o RewardAchievements(progress, t)]

\* character.achievements.push throws when the character has no achievements array
ProgressThrows(ch) == "achievements" \notin DOMAIN ch

----------------------------------------------------------------------------
(* Initial states *)

\* server/auth.ts: the character a login creates has neither level nor xp nor achievements
NewUserCharacter == [stats |-> [s \in WellnessStats |-> 1 * Milli]]

\* db/schema.ts: the default of users.character
DefaultCharacter ==
    [level |-> 1, xp |-> 0, stats |-> [s \in WellnessStats |-> 1 * Milli], achievements |-> <<>>]

\* client/src/components/Character.tsx defaultCharacter, saved through PUT /api/character
RpgCharacter ==
    [level |-> 1, xp |-> 0, stats |-> [s \in RpgStats |-> 1 * Milli], achievements |-> <<>>]

\* a character after many journal entries: 2950 xp is level 3 by both level formulas
SeasonedCharacter ==
    [level |-> 3, xp |-> 2950 * XpDen,
     stats |-> [s \in RpgStats |-> IF s = "wisdom" THEN 9500 ELSE 4 * Milli],
     achievements |-> <<[title |-> "New Insight", description |-> "i0", timestamp |-> 0]>>]

InitialCharacters == {NewUserCharacter, DefaultCharacter, RpgCharacter, SeasonedCharacter}

QuestIds == 1..NumQuests

QuestDifficulty(q) == 1 + ((2 * q) % 5)

InitialQuests ==
    [q \in QuestIds |-> [status |-> "active", completedAt |-> Null, difficulty |-> QuestDifficulty(q)]]

\* the last request and its response:
\*   status, warning     the HTTP status and whether the body has a warning
\*   fallbacks           the fallback paths the handler took
\*   providerFailed      calculateQuestCompletion threw
\*   strings             the insight strings of the analysis applied, or the
\*                       achievement strings of the reward applied
\*   attempts, delays    the calls of generateQuests and the waits between them
\*   generated           the number of quests in the response
\*   before, journalsBefore, now   the state the request found
NoRequest ==
    [op |-> "none", qid |-> 0, status |-> 0, warning |-> FALSE, fallbacks |-> {},
     providerFailed |-> FALSE, strings |-> <<>>, attempts |-> 0, delays |-> <<>>, generated |-> 0,
     before |-> DefaultCharacter, journalsBefore |-> 0, now |-> 0]

\* server/routes.ts registers its own completion handler; the server whose routes.ts
\* calls registerQuestRoutes serves the one of server/routes/quests.ts
Builds == {"routes.ts", "routes/quests.ts"}

InitServer ==
    /\ build \in Builds
    /\ character \in InitialCharacters
    /\ quests = InitialQuests
    /\ now = 0
    /\ calls = 0
    /\ journals = 0
    /\ last = NoRequest

IdleConc == pc = <<>> /\ req = <<>>
IdleFn == arg = 0 /\ res = 0

Init == InitServer /\ IdleConc /\ IdleFn

----------------------------------------------------------------------------
(* Requests, each handled in one step *)

\* POST /api/journals (server/routes.ts).  The generated quests are put in the
\* response; db.insert(quests) names the local array quests, not the table, and
\* throws into the catch block that only logs, so no quest row is inserted.
Journal(analysis, aiError, failures) ==
    LET generation == IF aiError THEN NoGeneration ELSE generateQuestsWithRetry(failures)
    IN  /\ calls < MaxCalls
        /\ calls' = calls + 1
        /\ journals' = journals + 1
        /\ character' = updateCharacterProgress(character, analysis, now)
        /\ last' = [NoRequest EXCEPT
                      !.op = "journal", !.status = 201, !.warning = aiError,
                      !.strings = analysis.insights,
                      !.fallbacks = (IF aiError THEN {"analysis"} ELSE {})
                                      \cup (IF generation.ok THEN {} ELSE {"generation"}),
                      !.attempts = generation.attempts, !.delays = generation.delays,
                      !.generated = IF generation.ok /\ ~aiError THEN GeneratedCount ELSE 0,
                      !.before = character, !.journalsBefore = journals, !.now = now]
        /\ UNCHANGED <<build, quests, now>>

SubmitJournal ==
    \/ Journal(FallbackAnalysis, TRUE, 0)
    \/ \E raw \in ProviderAnalyses, failures \in 0..maxRetries :
          IF analyzeEntry(raw) = "throws"
          THEN Journal(FallbackAnalysis, TRUE, 0)
          ELSE Journal(raw, FALSE, failures)

\* POST /api/quests/:id/complete (server/routes.ts)
Complete(qid, providerOk, raw) ==
    LET rewards == RewardsOfCompletion(character, quests, qid, providerOk, raw)
    IN  /\ build = "routes.ts"
        /\ calls < MaxCalls
        /\ calls' = calls + 1
        /\ quests' = MarkCompleted(quests, qid, now)
        /\ character' = applyReward(character, rewards, now)
        /\ last' = [NoRequest EXCEPT
                      !.op = "complete", !.qid = qid, !.status = 200,
                      !.fallbacks = IF qid \in DOMAIN quests /\ providerOk THEN {} ELSE {"reward"},
                      !.providerFailed = (qid \in DOMAIN quests /\ ~providerOk),
                      !.strings = rewards.achievements,
                      !.before = character, !.journalsBefore = journals, !.now = now]
        /\ UNCHANGED <<build, journals, now>>

CompleteQuest ==
    \E qid \in 0..NumQuests, raw \in RawRewards, providerOk \in BOOLEAN :
        Complete(qid, providerOk, raw)

\* POST /api/quests/:questId/complete (server/routes/quests.ts)
CompleteRoute(qid, providerOk, raw) ==
    /\ build = "routes/quests.ts"
    /\ calls < MaxCalls
    /\ calls' = calls + 1
    /\ quests' = MarkCompleted(quests, qid, now)
    /\ IF qid \notin DOMAIN quests
       THEN /\ character' = character
            /\ last' = [NoRequest EXCEPT !.op = "completeRoute", !.qid = qid, !.status = 404,
                           !.before = character, !.journalsBefore = journals, !.now = now]
       ELSE IF ~providerOk \/ ProgressThrows(character)
       THEN /\ character' = character
            /\ last' = [NoRequest EXCEPT !.op = "completeRoute", !.qid = qid, !.status = 500,
                           !.providerFailed = ~providerOk,
                           !.before = character, !.journalsBefore = journals, !.now = now]
       ELSE /\ character' = updateCharacterProgress_quests(character,
                                calculateQuestCompletion(raw), now)
            /\ last' = [NoRequest EXCEPT !.op = "completeRoute", !.qid = qid, !.status = 200,
                           !.strings = calculateQuestCompletion(raw).achievements,
                           !.before = character, !.journalsBefore = journals, !.now = now]
    /\ UNCHANGED <<build, journals, now>>

CompleteQuestRoute ==
    \E qid \in 0..NumQuests, raw \in RawRewards, providerOk \in BOOLEAN :
        CompleteRoute(qid, providerOk, raw)

\* time passes
Tick ==
    /\ now < MaxTicks * TickDays
    /\ now' = now + TickDays
    /\ UNCHANGED <<build, character, quests, calls, journals, last>>

Next ==
    \/ SubmitJournal /\ UNCHANGED <<concVars, fnVars>>
    \/ CompleteQuest /\ UNCHANGED <<concVars, fnVars>>
    \/ CompleteQuestRoute /\ UNCHANGED <<concVars, fnVars>>
    \/ Tick /\ UNCHANGED <<concVars, fnVars>>

Spec == Init /\ [][Next]_vars

----------------------------------------------------------------------------
(* Two requests of the same user in flight.  Each handler reads the        *)
(* character row (SELECT), computes, and writes the whole character back   *)
(* (UPDATE, COMMIT); the handlers take no row lock, so under the default   *)
(* READ COMMITTED isolation the two steps of one request interleave with   *)
(* those of the other.                                                     *)

InFlight == {1, 2}

NoInput ==
    [kind |-> "none", analysis |-> FallbackAnalysis, qid |-> 0, providerOk |-> FALSE,
     raw |-> [xpGained |-> 0, statUpdates |-> NoStats, achievements |-> <<>>],
     snap |-> DefaultCharacter]

InitConc ==
    /\ build \in Builds
    /\ character \in InitialCharacters
    /\ quests = InitialQuests
    /\ now = 0
    /\ calls = 0
    /\ journals = 0
    /\ last = [NoRequest EXCEPT !.before = character]
    /\ pc = [p \in InFlight |-> "idle"]
    /\ req = [p \in InFlight |-> NoInput]
    /\ IdleFn

DeliveredAnalyses == {FallbackAnalysis} \cup {raw \in ProviderAnalyses : analyzeEntry(raw) = "ok"}

\* db.select().from(users) of updateCharacterProgress
ReadJournal(p) ==
    /\ pc[p] = "idle"
    /\ \E analysis \in DeliveredAnalyses :
          req' = [req EXCEPT ![p] = [NoInput EXCEPT !.kind = "journal",
                                        !.analysis = analysis, !.snap = character]]
    /\ pc' = [pc EXCEPT ![p] = "read"]
    /\ UNCHANGED <<build, character, quests, now, calls, journals, last>>

\* db.update(users).set({ character: updatedCharacter }) and COMMIT
WriteJournal(p) ==
    /\ pc[p] = "read"
    /\ req[p].kind = "journal"
    /\ character' = updateCharacterProgress(req[p].snap, req[p].analysis, now)
    /\ journals' = journals + 1
    /\ calls' = calls + 1
    /\ pc' = [pc EXCEPT ![p] = "done"]
    /\ UNCHANGED <<build, quests, now, last, req>>

\* db.query.users.findFirst of the completion handler of server/routes.ts
ReadComplete(p) ==
    /\ build = "routes.ts"
    /\ pc[p] = "idle"
    /\ \E qid \in 0..NumQuests, raw \in RawRewards, providerOk \in BOOLEAN :
          req' = [req EXCEPT ![p] = [NoInput EXCEPT !.kind = "complete", !.qid = qid,
                                        !.providerOk = providerOk, !.raw = raw,
                                        !.snap = character]]
    /\ pc' = [pc EXCEPT ![p] = "read"]
    /\ UNCHANGED <<build, character, quests, now, calls, journals, last>>

\* the two updates of the completion handler of server/routes.ts and COMMIT
WriteComplete(p) ==
    /\ pc[p] = "read"
    /\ req[p].kind = "complete"
    /\ quests' = MarkCompleted(quests, req[p].qid, now)
    /\ character' = applyReward(req[p].snap,
                       RewardsOfCompletion(req[p].snap, quests, req[p].qid,
                                           req[p].providerOk, req[p].raw), now)
    /\ calls' = calls + 1
    /\ pc' = [pc EXCEPT ![p] = "done"]
    /\ UNCHANGED <<build, journals, now, last, req>>

\* server/routes/quests.ts: the handler updates the quest row, asks the provider,
\* and then updateCharacterProgress reads the character (db.query.users.findFirst)
ReadCompleteRoute(p) ==
    /\ build = "routes/quests.ts"
    /\ pc[p] = "idle"
    /\ \E qid \in 0..NumQuests, raw \in RawRewards, providerOk \in BOOLEAN :
          /\ req' = [req EXCEPT ![p] = [NoInput EXCEPT !.kind = "completeRoute", !.qid = qid,
                                        !.providerOk = providerOk, !.raw = raw,
                                        !.snap = character]]
          /\ quests' = MarkCompleted(quests, qid, now)
          /\ pc' = [pc EXCEPT ![p] =
                      IF qid \in DOMAIN quests /\ providerOk /\ ~ProgressThrows(character)
                      THEN "read" ELSE "done"]
          /\ calls' = IF qid \in DOMAIN quests /\ providerOk /\ ~ProgressThrows(character)
                      THEN calls ELSE calls + 1
    /\ UNCHANGED <<build, character, now, journals, last>>

\* server/routes/quests.ts: db.update(users).set({ character })
WriteCompleteRoute(p) ==
    /\ pc[p] = "read"
    /\ req[p].kind = "completeRoute"
    /\ character' = updateCharacterProgress_quests(req[p].snap,
                       calculateQuestCompletion(req[p].raw), now)
    /\ calls' = calls + 1
    /\ pc' = [pc EXCEPT ![p] = "done"]
    /\ UNCHANGED <<build, quests, journals, now, last, req>>

NextConc ==
    \/ \E p \in InFlight : ReadJournal(p) /\ UNCHANGED fnVars
    \/ \E p \in InFlight : WriteJournal(p) /\ UNCHANGED fnVars
    \/ \E p \in InFlight : ReadComplete(p) /\ UNCHANGED fnVars
    \/ \E p \in InFlight : WriteComplete(p) /\ UNCHANGED fnVars
    \/ \E p \in InFlight : ReadCompleteRoute(p) /\ UNCHANGED fnVars
    \/ \E p \in InFlight : WriteCompleteRoute(p) /\ UNCHANGED fnVars

SpecConc == InitConc /\ [][NextConc]_vars

\* the xp gain request p computes from the character it read
GainOf(p) ==
    IF req[p].kind = "journal"
    THEN XpGain(req[p].snap, req[p].analysis, now)
    ELSE IF req[p].kind = "complete"
    THEN RewardsOfCompletion(req[p].snap, quests, req[p].qid,
                             req[p].providerOk, req[p].raw).xpGained
    ELSE IF req[p].qid \in DOMAIN quests /\ req[p].providerOk /\ ~ProgressThrows(req[p].snap)
    THEN calculateQuestCompletion(req[p].raw).xpGained
    ELSE 0

----------------------------------------------------------------------------
(* calculateStatWeights of server/routes.ts as a function of its inputs.   *)
(* The tags of an analysis matter only through the number of keywords of   *)
(* each stat they contain; an input has the same number n of matches for   *)
(* every stat, up to the number of keywords the stat has.                  *)

MaxLevel == 6        \* levels 1..MaxLevel are given to calculateStatWeights

Moods == {"positive", "neutral", "negative"}

Matches(n) == [s \in RpgStats |-> Min(n, KeywordCount[s])]

WeightInputs ==
    { [level |-> l,
       analysis |-> [mood |-> m, kw |-> Matches(n), growthAreas |-> 0, insights |-> ins,
                     skillsImproved |-> 0, statChanges |-> NoStats]] :
        l \in 1..MaxLevel, m \in Moods, n \in 0..6, ins \in {<<>>, <<"i1">>} }

Pending == [done |-> FALSE]

InitWeights ==
    /\ InitServer
    /\ build = "routes.ts"
    /\ character = RpgCharacter
    /\ IdleConc
    /\ arg \in WeightInputs
    /\ res = Pending

CalcWeights ==
    /\ ~res.done
    /\ res' = [done |-> TRUE, weights |-> calculateStatWeights(arg.analysis, arg.level)]
    /\ UNCHANGED <<srvVars, concVars, arg>>

NextWeights == CalcWeights

SpecWeights == InitWeights /\ [][NextWeights]_vars

----------------------------------------------------------------------------
(* client/src/lib/storage.ts: quest recommendation.  Stat values are whole *)
(* numbers here; a requirement is a whole number, a reward is in tenths.   *)
(* Scores are exact rationals: achievability over 120, growth over 200,     *)
(* balance over 10, the final score over ScoreDen.                         *)

ScoreDen == 6 * Milli

QUEST_TEMPLATES ==
    << [title |-> "Morning Exercise", difficulty |-> 2,
        statRequirements |-> [constitution |-> 2],
        statRewards |-> [strength |-> 2, constitution |-> 3]],
       [title |-> "Healthy Meal", difficulty |-> 1,
        statRequirements |-> [wisdom |-> 1],
        statRewards |-> [constitution |-> 2, wisdom |-> 1]],
       [title |-> "Meditation", difficulty |-> 1,
        statRequirements |-> [wisdom |-> 2],
        statRewards |-> [wisdom |-> 3, charisma |-> 1]],
       [title |-> "Social Connection", difficulty |-> 1,
        statRequirements |-> [charisma |-> 1],
        statRewards |-> [charisma |-> 2, wisdom |-> 1]],
       [title |-> "Group Activity", difficulty |-> 2,
        statRequirements |-> [charisma |-> 2, constitution |-> 1],
        statRewards |-> [charisma |-> 3, strength |-> 1]],
       [title |-> "Kind Gesture", difficulty |-> 1,
        statRequirements |-> [wisdom |-> 1, charisma |-> 1],
        statRewards |-> [charisma |-> 2, wisdom |-> 2]],
       [title |-> "Skill Development", difficulty |-> 2,
        statRequirements |-> [intelligence |-> 2],
        statRewards |-> [intelligence |-> 3, wisdom |-> 1]],
       [title |-> "Reading Quest", difficulty |-> 1,
        statRequirements |-> [intelligence |-> 1],
        statRewards |-> [intelligence |-> 2, wisdom |-> 2]],
       [title |-> "Creative Expression", difficulty |-> 2,
        statRequirements |-> [intelligence |-> 1, charisma |-> 1],
        statRewards |-> [charisma |-> 2, intelligence |-> 2]],
       [title |-> "Goal Setting", difficulty |-> 2,
        statRequirements |-> [wisdom |-> 2, intelligence |-> 1],
        statRewards |-> [wisdom |-> 2, intelligence |-> 2]],
       [title |-> "Task Completion", difficulty |-> 2,
        statRequirements |-> [intelligence |-> 2],
        statRewards |-> [intelligence |-> 3, wisdom |-> 1]],
       [title |-> "Skill Mastery", difficulty |-> 3,
        statRequirements |-> [intelligence |-> 3, wisdom |-> 2],
        statRewards |-> [intelligence |-> 4, wisdom |-> 2]] >>

\* quest.statRequirements || {} and quest.statRewards || {}
RequirementsOf(quest) ==
    IF "statRequirements" \in DOMAIN quest THEN quest.statRequirements ELSE NoStats

RewardsOf(quest) == IF "statRewards" \in DOMAIN quest THEN quest.statRewards ELSE NoStats

\* stats[stat] || 0
StatOrZero(stats, stat) == IF stat \in DOMAIN stats THEN stats[stat] ELSE 0

\* statGrowthPotential[stat] || 0, in tenths: Math.max(0, 10 - value) / 10
GrowthPotential(stats, stat) == IF stat \in DOMAIN stats THEN Max(0, 10 - stats[stat]) ELSE 0

\* over 120; a quest has at most two requirements, each at most 6
calculateAchievabilityScore(requirements, stats) ==
    LET n == Cardinality(DOMAIN requirements)
        sixtieths == [s \in DOMAIN requirements |->
                        IF StatOrZero(stats, s) >= requirements[s] THEN 60
                        ELSE Max(0, (60 * StatOrZero(stats, s)) \div requirements[s])]
    IN  IF n = 0 THEN 120 ELSE (2 * SumOver(sixtieths, DOMAIN requirements)) \div n

\* calculateGrowthScore without the neutral default of a quest without rewards
calculateGrowthScore_zeroDefault(rewards, stats) ==
    LET n == Cardinality(DOMAIN rewards)
        hundredths == [s \in DOMAIN rewards |-> rewards[s] * GrowthPotential(stats, s)]
    IN  IF n = 0 THEN 0 ELSE Min(200, (2 * SumOver(hundredths, DOMAIN rewards)) \div n)

\* over 200; the templates have two rewards
calculateGrowthScore(rewards, stats) ==
    LET n == Cardinality(DOMAIN rewards)
        hundredths == [s \in DOMAIN rewards |-> rewards[s] * GrowthPotential(stats, s)]
    IN  IF n = 0 THEN 100 ELSE Min(200, (2 * SumOver(hundredths, DOMAIN rewards)) \div n)

\* over 10
calculateBalanceScore(requirements, stats) ==
    LET n == Cardinality(DOMAIN requirements)
        differences == [s \in DOMAIN requirements |->
                          IF StatOrZero(stats, s) >= requirements[s]
                          THEN StatOrZero(stats, s) - requirements[s]
                          ELSE requirements[s] - StatOrZero(stats, s)]
    IN  IF n = 0 THEN 10 ELSE Max(0, 10 - (2 * SumOver(differences, DOMAIN requirements)) \div n)

\* finalScore = achievability * 0.4 + growth * 0.4 + balance * 0.2, over ScoreDen
FinalScore(template, stats) ==
    20 * calculateAchievabilityScore(RequirementsOf(template), stats)
      + 12 * calculateGrowthScore(RewardsOf(template), stats)
      + 120 * calculateBalanceScore(RequirementsOf(template), stats)

\* the element the .map of recommendedQuests makes of template i
ScoredQuest(i, stats) == [quest |-> i, score |-> FinalScore(QUEST_TEMPLATES[i], stats)]

\* .sort((a, b) => b.score - a.score): descending, equal scores keep their order;
\* e goes behind every element whose score is not less than its own
InsertByScore(sorted, e) ==
    LET k == Cardinality({j \in 1..Len(sorted) : sorted[j].score >= e.score})
    IN  SubSeq(sorted, 1, k) \o <<e>> \o SubSeq(sorted, k + 1, Len(sorted))

RECURSIVE SortedFirst(_, _)
SortedFirst(k, stats) ==
    IF k = 0 THEN <<>>
    ELSE InsertByScore(SortedFirst(k - 1, stats), ScoredQuest(k, stats))

SortedByScore(stats) == SortedFirst(Len(QUEST_TEMPLATES), stats)

\* .slice(0, 5).map(({ quest }) => quest)
TopRecommended(stats) ==
    LET top == SubSeq(SortedByScore(stats), 1, Min(5, Len(QUEST_TEMPLATES)))
    IN  [k \in 1..Len(top) |-> top[k].quest]

\* MeetableReqs without the two points of grace
MeetableReqs_noGrace(requirements, stats) ==
    Cardinality({s \in DOMAIN requirements : StatOrZero(stats, s) >= requirements[s]})

\* current >= requiredValue || current >= requiredValue - 2
MeetableReqs(requirements, stats) ==
    Cardinality({s \in DOMAIN requirements :
        \/ StatOrZero(stats, s) >= requirements[s]
        \/ StatOrZero(stats, s) >= requirements[s] - 2})

\* Suitable without the test reqCount === 0: 0 / 0 is NaN, and NaN >= 0.7 is false
Suitable_noEmptyCase(template, stats) ==
    LET reqCount == Cardinality(DOMAIN template.statRequirements)
    IN  reqCount > 0 /\ 10 * MeetableReqs(template.statRequirements, stats) >= 7 * reqCount

\* reqCount === 0 || meetableReqs / reqCount >= 0.7
Suitable(template, stats) ==
    LET reqCount == Cardinality(DOMAIN template.statRequirements)
    IN  reqCount = 0 \/ 10 * MeetableReqs(template.statRequirements, stats) >= 7 * reqCount

\* the indexes of the templates whose quests are returned, in the order returned
generateQuestsFromAnalysis(stats) ==
    SelectSeq(TopRecommended(stats), LAMBDA i : Suitable(QUEST_TEMPLATES[i], stats))

MaxStatInput == 2      \* a stat the character has is in 1..MaxStatInput
MaxLevelInput == 3     \* the character's level is in 1..MaxLevelInput

\* the character's stats: some of the six stats, each with a whole value; the
\* stats object of a character that came from the server may lack any of them
StatInputs ==
    UNION { [D -> 1..MaxStatInput] : D \in SUBSET RpgStats }

InitSelect ==
    /\ InitServer
    /\ build = "routes.ts"
    /\ character = RpgCharacter
    /\ IdleConc
    /\ arg \in [level : 1..MaxLevelInput, stats : StatInputs]
    /\ res = Pending

Select ==
    /\ ~res.done
    /\ res' = [done |-> TRUE,
               top |-> TopRecommended(arg.stats),
               quests |-> generateQuestsFromAnalysis(arg.stats)]
    /\ UNCHANGED <<srvVars, concVars, arg>>

NextSelect == Select

SpecSelect == InitSelect /\ [][NextSelect]_vars

----------------------------------------------------------------------------
(* client/src/lib/storage.ts: the callback of .filter in                   *)
(* generateQuestsFromAnalysis as a function of one quest and the stats.    *)
(* A quest may have no statRequirements field, or an empty one.            *)

MaxRequired == 3       \* a required stat value is in 1..MaxRequired

FilterStatNames == {"intelligence", "wisdom"}

\* if (!quest.statRequirements) return true; otherwise the 70% test
filterQuest(quest, stats) ==
    IF "statRequirements" \notin DOMAIN quest THEN TRUE ELSE Suitable(quest, stats)

FilterQuests ==
    {[title |-> "q"]}
      \cup {[title |-> "q", statRequirements |-> r] :
              r \in UNION {[D -> 1..MaxRequired] : D \in SUBSET FilterStatNames}}

FilterStats == UNION {[D -> 1..MaxStatInput] : D \in SUBSET FilterStatNames}

InitFilter ==
    /\ InitServer
    /\ build = "routes.ts"
    /\ character = RpgCharacter
    /\ IdleConc
    /\ arg \in [quest : FilterQuests, stats : FilterStats]
    /\ res = Pending

Filter ==
    /\ ~res.done
    /\ res' = [done |-> TRUE, kept |-> filterQuest(arg.quest, arg.stats)]
    /\ UNCHANGED <<srvVars, concVars, arg>>

NextFilter == Filter

SpecFilter == InitFilter /\ [][NextFilter]_vars

----------------------------------------------------------------------------
(* The scores attached to a quest as metadata, as fractions num / den:     *)
(* by generateQuestsFromAnalysis of client/src/lib/storage.ts, and by      *)
(* filterQuestsByStats, which the server's generateQuestsWithRetry of      *)
(* server/utils/quest.ts applies to the generated quests.                  *)

GROWTH_THRESHOLD == 5
CHALLENGE_THRESHOLD == 2

\* metadata of generateQuestsFromAnalysis
clientMetadata(quest, stats) ==
    [achievability |-> [num |-> calculateAchievabilityScore(RequirementsOf(quest), stats),
                        den |-> 120],
     growthPotential |-> [num |-> calculateGrowthScore(RewardsOf(quest), stats), den |-> 200],
     balance |-> [num |-> calculateBalanceScore(RequirementsOf(quest), stats), den |-> 10]]

\* characterStat - requirement of filterQuestsByStats
StatDifference(quest, stats, stat) == StatOrZero(stats, stat) - quest.statRequirements[stat]

\* achievabilityScore *= 1.2, 0.8 or 0.4 for each requirement, in thousandths
RECURSIVE AchievabilityProduct(_, _, _)
AchievabilityProduct(quest, stats, D) ==
    IF D = {} THEN Milli
    ELSE LET stat == CHOOSE x \in D : TRUE
             d == StatDifference(quest, stats, stat)
             factor == IF d >= 0 THEN 12 ELSE IF d >= -CHALLENGE_THRESHOLD THEN 8 ELSE 4
         IN  (AchievabilityProduct(quest, stats, D \ {stat}) * factor) \div 10

\* meetableRequirements, in halves
MeetableHalves(quest, stats) ==
    LET halves == [stat \in DOMAIN quest.statRequirements |->
                     LET d == StatDifference(quest, stats, stat)
                     IN  IF d >= 0 THEN 2 ELSE IF d >= -CHALLENGE_THRESHOLD THEN 1 ELSE 0]
    IN  SumOver(halves, DOMAIN quest.statRequirements)

\* growthScore, in thousandths: 0.3 * min(2, |difference|) / 2 for each requirement on a
\* stat below the growth threshold, 0.2 * (5 - stat) / 5 for each reward on such a stat
ServerGrowthScore(quest, stats) ==
    LET abs(x) == IF x < 0 THEN -x ELSE x
        byRequirement ==
            [stat \in DOMAIN quest.statRequirements |->
                IF StatOrZero(stats, stat) < GROWTH_THRESHOLD
                THEN 150 * Min(CHALLENGE_THRESHOLD, abs(StatDifference(quest, stats, stat)))
                ELSE 0]
        byReward ==
            [stat \in DOMAIN RewardsOf(quest) |->
                IF StatOrZero(stats, stat) < GROWTH_THRESHOLD
                THEN 40 * (GROWTH_THRESHOLD - StatOrZero(stats, stat))
                ELSE 0]
    IN  SumOver(byRequirement, DOMAIN quest.statRequirements)
          + SumOver(byReward, DOMAIN RewardsOf(quest))

\* metadata of filterQuestsByStats; a quest without statRequirements keeps the
\* initial scores
serverMetadata(quest, stats) ==
    IF "statRequirements" \notin DOMAIN quest
    THEN [achievability |-> [num |-> Milli, den |-> Milli],
          growthPotential |-> [num |-> 0, den |-> Milli],
          balance |-> [num |-> Milli, den |-> Milli]]
    ELSE LET total == Cardinality(DOMAIN quest.statRequirements)
         IN  [achievability |->
                  [num |-> AchievabilityProduct(quest, stats, DOMAIN quest.statRequirements),
                   den |-> Milli],
              growthPotential |-> [num |-> ServerGrowthScore(quest, stats), den |-> Milli],
              balance |-> IF total > 0
                          THEN [num |-> MeetableHalves(quest, stats), den |-> 2 * total]
                          ELSE [num |-> Milli, den |-> Milli]]

\* a quest that asks for more wisdom than a beginner has, and rewards no stat
ExampleQuest == [title |-> "q", statRequirements |-> [wisdom |-> 5]]

\* statRewards of a quest: absent, or one reward, in tenths
ScoredQuests ==
    FilterQuests
      \cup {ExampleQuest}
      \cup {[title |-> "q", statRewards |-> [wisdom |-> w]] : w \in 1..MaxRequired}
      \cup {[title |-> "q", statRequirements |-> r, statRewards |-> [wisdom |-> w]] :
              r \in UNION {[D -> 1..MaxRequired] : D \in SUBSET FilterStatNames},
              w \in 1..MaxRequired}

InitScores ==
    /\ InitServer
    /\ build = "routes.ts"
    /\ character = RpgCharacter
    /\ IdleConc
    /\ arg \in [quest : ScoredQuests, stats : FilterStats]
    /\ res = Pending

ScoreClient ==
    /\ ~res.done
    /\ res' = [done |-> TRUE, by |-> "storage.ts",
               metadata |-> clientMetadata(arg.quest, arg.stats),
               score |-> FinalScore(arg.quest, arg.stats)]
    /\ UNCHANGED <<srvVars, concVars, arg>>

ScoreServer ==
    /\ ~res.done
    /\ res' = [done |-> TRUE, by |-> "filterQuestsByStats",
               metadata |-> serverMetadata(arg.quest, arg.stats)]
    /\ UNCHANGED <<srvVars, concVars, arg>>

NextScores == ScoreClient \/ ScoreServer

SpecScores == InitScores /\ [][NextScores]_vars

----------------------------------------------------------------------------
(* What the server makes of a result delivered by the language model:      *)
(* analyzeEntry with the catch block of POST /api/journals,                *)
(* calculateQuestCompletion, and generateQuests.                           *)

\* stat changes the language model may deliver, in thousandths
ChangeValues == {-1500, -1000, 0, 500, 1000, 1500}

RawAnalyses ==
    { [mood |-> "positive", kw |-> NoKeywords, growthAreas |-> 1, insights |-> <<"i1">>,
       skillsImproved |-> 0, statChanges |-> [wisdom |-> v, strength |-> w]] :
        v \in ChangeValues, w \in ChangeValues }

\* xpGained in tenths, a stat update in thousandths
RawRewardInputs ==
    { [xpGained |-> x, statUpdates |-> [wisdom |-> u], achievements |-> <<"Quest Master">>] :
        x \in {0, 100, 499, 500, 1205, 2000, 2001, 5000},
        u \in {-1000, 0, 500, 2000, 3000} }

RawQuestLists ==
    { << [title |-> "Evening Walk", difficulty |-> d, xpReward |-> x,
          statRewards |-> [constitution |-> 5]] >> :
        d \in {0, 1, 3, 5, 7}, x \in {0, 49, 50, 120, 200, 201, 500} }

ProviderResults ==
    [kind : {"analysis"}, raw : RawAnalyses]
      \cup [kind : {"reward"}, raw : RawRewardInputs]
      \cup [kind : {"quests"}, raw : RawQuestLists]

InitAdapters ==
    /\ InitServer
    /\ build = "routes.ts"
    /\ character = RpgCharacter
    /\ IdleConc
    /\ arg \in ProviderResults
    /\ res = Pending

\* analysis = await analyzeEntry(content), or the fallback analysis of the catch block
Analyze ==
    /\ ~res.done
    /\ arg.kind = "analysis"
    /\ res' = IF analyzeEntry(arg.raw) = "throws"
              THEN [done |-> TRUE, rejected |-> TRUE, value |-> FallbackAnalysis]
              ELSE [done |-> TRUE, rejected |-> FALSE, value |-> arg.raw]
    /\ UNCHANGED <<srvVars, concVars, arg>>

Reward ==
    /\ ~res.done
    /\ arg.kind = "reward"
    /\ res' = [done |-> TRUE, rejected |-> FALSE, value |-> calculateQuestCompletion(arg.raw)]
    /\ UNCHANGED <<srvVars, concVars, arg>>

Generate ==
    /\ ~res.done
    /\ arg.kind = "quests"
    /\ res' = IF generateQuestsThrows(arg.raw)
              THEN [done |-> TRUE, rejected |-> TRUE, value |-> <<>>]
              ELSE [done |-> TRUE, rejected |-> FALSE, value |-> generateQuests(arg.raw)]
    /\ UNCHANGED <<srvVars, concVars, arg>>

NextAdapters == Analyze \/ Reward \/ Generate

SpecAdapters == InitAdapters /\ [][NextAdapters]_vars

----------------------------------------------------------------------------
(* The scaling of a reward in POST /api/quests/:id/complete of             *)
(* server/routes.ts as a function of the raw reward, the character's level *)
(* and the quest's difficulty.                                             *)

MaxDifficulty == 16    \* the difficulty of a quest row is in 0..MaxDifficulty

InitScale ==
    /\ InitServer
    /\ build = "routes.ts"
    /\ character = RpgCharacter
    /\ IdleConc
    /\ arg \in [raw : RawRewardInputs, level : 1..MaxLevel, difficulty : 0..MaxDifficulty]
    /\ res = Pending

Scale ==
    /\ ~res.done
    /\ res' = [done |-> TRUE,
               multiplier |-> DifficultyMultiplier(OrElse(arg.difficulty, 1)),
               rewards |-> ScaledReward(calculateQuestCompletion(arg.raw), arg.level,
                                        arg.difficulty)]
    /\ UNCHANGED <<srvVars, concVars, arg>>

NextScale == Scale

SpecScale == InitScale /\ [][NextScale]_vars

----------------------------------------------------------------------------
(* updateCharacterProgress of server/routes.ts applied to the same stored  *)
(* character and the same analysis at two times of the wall clock.         *)

Times == {k * TickDays : k \in 0..MaxTicks}

InitTwice ==
    /\ InitServer
    /\ build = "routes.ts"
    /\ IdleConc
    /\ arg \in [analysis : DeliveredAnalyses, first : Times, second : Times]
    /\ res = Pending

ApplyTwice ==
    /\ ~res.done
    /\ res' = [done |-> TRUE,
               first |-> updateCharacterProgress(character, arg.analysis, arg.first),
               second |-> updateCharacterProgress(character, arg.analysis, arg.second)]
    /\ UNCHANGED <<srvVars, concVars, arg>>

NextTwice == ApplyTwice

SpecTwice == InitTwice /\ [][NextTwice]_vars

----------------------------------------------------------------------------
(* server/openai.ts: withRetry(operation, maxRetries = 3, baseDelay = 1000). *)
(* The outcome of a call of operation is 200 when it resolves, the HTTP      *)
(* status of error.response.status when it rejects with one, and 0 when it   *)
(* rejects with an error that has no (truthy) response status.               *)

MaxAttempts == 3       \* maxRetries is in 1..MaxAttempts

baseDelay == 1000

Resolved == 200
NoStatus == 0
CallOutcomes == {Resolved, NoStatus, 401, 429, 500, 503, 400}

\* the cases of the switch that throw at once
FatalStatuses == {401, 500}

\* the wait after a failure of attempt `attempt` that never grows
withRetryDelay_constant(attempt) == baseDelay

\* baseDelay * Math.pow(2, attempt)
withRetryDelay(attempt) == baseDelay * Pow(2, attempt)

\* res of a running withRetry:
\*   attempt   the loop variable
\*   calls     how many times operation was called
\*   delays    the waits so far
\*   waiting   the loop is at `await new Promise(... setTimeout ...)`
\*   result    "returned", or what was thrown: "OpenAIError" (with its code) or
\*             "lastError", the error of the last call
InitRetry ==
    /\ InitServer
    /\ build = "routes.ts"
    /\ character = RpgCharacter
    /\ IdleConc
    /\ arg \in UNION { [maxRetries : {n}, outcomes : [1..n -> CallOutcomes]] : n \in 1..MaxAttempts }
    /\ res = [done |-> FALSE, attempt |-> 0, calls |-> 0, delays |-> <<>>, waiting |-> FALSE,
              result |-> "none", code |-> "none"]

\* one iteration of the for loop up to its return, throw, wait or exit
CallOperation ==
    /\ ~res.done /\ ~res.waiting
    /\ res.attempt < arg.maxRetries
    /\ LET outcome == arg.outcomes[res.attempt + 1]
           called == [res EXCEPT !.calls = @ + 1]
           lastAttempt == res.attempt = arg.maxRetries - 1
       IN  res' =
             IF outcome = Resolved
             THEN [called EXCEPT !.done = TRUE, !.result = "returned"]
             ELSE IF outcome = 401
             THEN [called EXCEPT !.done = TRUE, !.result = "OpenAIError",
                                 !.code = "INVALID_API_KEY"]
             ELSE IF outcome = 500
             THEN [called EXCEPT !.done = TRUE, !.result = "OpenAIError",
                                 !.code = "INTERNAL_ERROR"]
             ELSE IF outcome \notin {NoStatus, 429, 503} /\ lastAttempt
             THEN [called EXCEPT !.done = TRUE, !.result = "OpenAIError", !.code = "API_ERROR"]
             ELSE IF ~lastAttempt
             THEN [called EXCEPT !.waiting = TRUE]
             ELSE \* the loop ends: throw lastError
                  [called EXCEPT !.done = TRUE, !.attempt = @ + 1, !.result = "lastError"]
    /\ UNCHANGED <<srvVars, concVars, arg>>

\* the timer fires: continue with the next attempt
WaitDelay ==
    /\ ~res.done /\ res.waiting
    /\ res' = [res EXCEPT !.waiting = FALSE, !.attempt = @ + 1,
                          !.delays = Append(@, withRetryDelay(res.attempt))]
    /\ UNCHANGED <<srvVars, concVars, arg>>

NextRetry == CallOperation \/ WaitDelay

\* a settled promise runs its continuation and a timer fires
SpecRetry == InitRetry /\ [][NextRetry]_vars /\ WF_vars(NextRetry)

----------------------------------------------------------------------------
(* server/utils/storylineProcessor.ts.  A quest is its id, category,       *)
(* difficulty and optional statRequirements; a node is its questId,         *)
(* nextQuests and requirements (level, stats, previousQuests).              *)

MaxQuestList == 3          \* processStorylines is given at most MaxQuestList quests
MaxStoryDifficulty == 2    \* difficulties, levels and stat values are in 1..MaxStoryDifficulty
MaxChain == 2              \* the quests of the user when the availability of one is asked

StoryCategories == {"Health", "Social"}

\* the lists of at most n quests; the quest at position i has id i
StoryListsUpTo(n) ==
    UNION { [1..k -> [category : StoryCategories, difficulty : 1..MaxStoryDifficulty]] :
              k \in 0..n }

StoryLists == StoryListsUpTo(MaxQuestList)

\* the quests of a list, each with its id and, unless empty, the statRequirements
QuestsOf(list, requirements) ==
    [i \in 1..Len(list) |->
        IF DOMAIN requirements = {}
        THEN [id |-> i, category |-> list[i].category, difficulty |-> list[i].difficulty]
        ELSE [id |-> i, category |-> list[i].category, difficulty |-> list[i].difficulty,
              statRequirements |-> requirements]]

\* the node created for a quest
StorylineNode(quest) ==
    [questId |-> quest.id,
     nextQuests |-> <<>>,
     requirements |-> [level |-> OrElse(quest.difficulty, 1),
                       stats |-> RequirementsOf(quest),
                       previousQuests |-> <<>>]]

\* the keys of the storylines object, in the order of their creation
RECURSIVE CategoriesOf(_)
CategoriesOf(questList) ==
    IF questList = <<>> THEN <<>>
    ELSE LET front == CategoriesOf(SubSeq(questList, 1, Len(questList) - 1))
             category == questList[Len(questList)].category
         IN  IF \E i \in 1..Len(front) : front[i] = category
             THEN front
             ELSE Append(front, category)

\* storylines[category].nodes after the forEach that groups the questList
RECURSIVE NodesOf(_, _)
NodesOf(questList, category) ==
    IF questList = <<>> THEN <<>>
    ELSE LET front == NodesOf(SubSeq(questList, 1, Len(questList) - 1), category)
             quest == questList[Len(questList)]
         IN  IF quest.category = category
             THEN Append(front, StorylineNode(quest))
             ELSE front

\* the nodes left in the order of the quest list
SortByLevel_asGiven(nodes) == nodes

\* nodes.sort((a, b) => (a.requirements.level || 0) - (b.requirements.level || 0)):
\* ascending, nodes of equal level keep their order
RECURSIVE SortByLevel(_)
SortByLevel(nodes) ==
    IF nodes = <<>> THEN <<>>
    ELSE LET sorted == SortByLevel(SubSeq(nodes, 1, Len(nodes) - 1))
             node == nodes[Len(nodes)]
             k == Cardinality({j \in 1..Len(sorted) :
                                 sorted[j].requirements.level <= node.requirements.level})
         IN  SubSeq(sorted, 1, k) \o <<node>> \o SubSeq(sorted, k + 1, Len(sorted))

\* the forEach that connects each node to its neighbours
ConnectNodes(nodes) ==
    [i \in 1..Len(nodes) |->
        [nodes[i] EXCEPT
            !.requirements.previousQuests = IF i > 1 THEN <<nodes[i - 1].questId>> ELSE @,
            !.nextQuests = IF i < Len(nodes) THEN <<nodes[i + 1].questId>> ELSE @]]

processStorylines(questList) ==
    LET categories == CategoriesOf(questList)
    IN  [c \in 1..Len(categories) |->
            LET nodes == ConnectNodes(SortByLevel(NodesOf(questList, categories[c])))
            IN  [category |-> categories[c],
                 nodes |-> nodes,
                 currentNode |-> nodes[1].questId]]

\* every element of a list of quest ids is among the completed quests
AllCompleted(ids, completedQuests) == \A i \in 1..Len(ids) : ids[i] \in completedQuests

\* the stat requirements that the character does not meet
UnmetStats(requirements, characterStats) ==
    {stat \in DOMAIN requirements : StatOrZero(characterStats, stat) < requirements[stat]}

isQuestAvailable(quest, completedQuests, characterStats, characterLevel) ==
    IF quest.difficulty # 0 /\ quest.difficulty > characterLevel THEN FALSE
    ELSE IF UnmetStats(RequirementsOf(quest), characterStats) # {} THEN FALSE
    ELSE LET storylineQuests == processStorylines(<<quest>>)
             node == storylineQuests[1].nodes[1]
         IN  AllCompleted(node.requirements.previousQuests, completedQuests)

isNodeAvailable(node, completedQuests, characterStats, characterLevel) ==
    IF node.requirements.level # 0 /\ node.requirements.level > characterLevel THEN FALSE
    ELSE IF UnmetStats(node.requirements.stats, characterStats) # {} THEN FALSE
    ELSE AllCompleted(node.requirements.previousQuests, completedQuests)

InitStorylines ==
    /\ InitServer
    /\ build = "routes.ts"
    /\ character = RpgCharacter
    /\ IdleConc
    /\ arg \in [quests : StoryLists]
    /\ res = Pending

ProcessStorylines ==
    /\ ~res.done
    /\ res' = [done |-> TRUE, storylines |-> processStorylines(QuestsOf(arg.quests, NoStats))]
    /\ UNCHANGED <<srvVars, concVars, arg>>

NextStorylines == ProcessStorylines

SpecStorylines == InitStorylines /\ [][NextStorylines]_vars

\* the quests of a user, the quests they completed and their character
InitAvailable ==
    /\ InitServer
    /\ build = "routes.ts"
    /\ character = RpgCharacter
    /\ IdleConc
    /\ arg \in [quests : StoryListsUpTo(MaxChain),
                 requirements : {NoStats, [wisdom |-> 2]},
                 completedQuests : SUBSET (1..MaxChain),
                 characterStats : [{"wisdom"} -> 1..MaxStoryDifficulty],
                 characterLevel : 1..MaxStoryDifficulty]
    /\ res = Pending

\* isQuestAvailable asked for one of the user's quests
CheckQuest ==
    /\ ~res.done
    /\ \E i \in 1..Len(arg.quests) :
          res' = [done |-> TRUE, by |-> "isQuestAvailable", quest |-> i,
                  available |-> isQuestAvailable(QuestsOf(arg.quests, arg.requirements)[i],
                                                 arg.completedQuests, arg.characterStats,
                                                 arg.characterLevel)]
    /\ UNCHANGED <<srvVars, concVars, arg>>

\* isNodeAvailable asked for a node of the user's storylines
CheckNode ==
    /\ ~res.done
    /\ LET storylines == processStorylines(QuestsOf(arg.quests, arg.requirements))
       IN  \E s \in 1..Len(storylines) : \E k \in 1..Len(storylines[s].nodes) :
             res' = [done |-> TRUE, by |-> "isNodeAvailable",
                     quest |-> storylines[s].nodes[k].questId,
                     available |-> isNodeAvailable(storylines[s].nodes[k],
                                                   arg.completedQuests, arg.characterStats,
                                                   arg.characterLevel)]
    /\ UNCHANGED <<srvVars, concVars, arg>>

NextAvailable == CheckQuest \/ CheckNode

SpecAvailable == InitAvailable /\ [][NextAvailable]_vars

----------------------------------------------------------------------------
(* The database connection of a request: pool.connect(), BEGIN, the body of *)
(* the handler, COMMIT, the catch block with ROLLBACK, and the finally       *)
(* block with client.release().                                              *)

Handlers ==
    {"routes.ts journals", "routes.ts complete", "routes/journals.ts", "main.tsx complete"}

\* the handlers that declare `let client` and connect inside the try block
ConnectsInTry == {"routes/journals.ts", "main.tsx complete"}

\* the handlers that answer 400 to an invalid request before they connect
ValidatesFirst == {"routes/journals.ts", "main.tsx complete"}

\* what goes wrong in a request:
\*   badRequest        empty content, or a quest id that is not a number
\*   connect, begin, commit   that call rejects
\*   body              a statement between BEGIN and COMMIT throws
\*   questMissing, alreadyCompleted, noStats   what the completion handler finds
Faults ==
    {"none", "badRequest", "connect", "begin", "body", "commit",
     "questMissing", "alreadyCompleted", "noStats"}

\* res of a running handler:
\*   pc        where the handler is
\*   client    "none", "acquired" or "released"
\*   log       the transaction commands sent on the connection
\*   releases  the calls of client.release()
\*   status    the HTTP status answered, 0 when none was
InitConn ==
    /\ InitServer
    /\ build = "routes.ts"
    /\ character = RpgCharacter
    /\ IdleConc
    /\ arg \in [handler : Handlers, fault : Faults]
    /\ res = [done |-> FALSE, pc |-> "start", client |-> "none", log |-> <<>>,
              releases |-> 0, status |-> 0]

\* the validation of the request and pool.connect()
Connect ==
    /\ res.pc = "start"
    /\ res' = IF arg.fault = "badRequest" /\ arg.handler \in ValidatesFirst
              THEN [res EXCEPT !.pc = "done", !.done = TRUE, !.status = 400]
              ELSE IF arg.fault = "connect"
              THEN IF arg.handler \in ConnectsInTry
                   THEN [res EXCEPT !.pc = "catch"]
                   ELSE \* the rejection leaves the handler: nothing was acquired
                        [res EXCEPT !.pc = "done", !.done = TRUE]
              ELSE [res EXCEPT !.pc = "begin", !.client = "acquired"]
    /\ UNCHANGED <<srvVars, concVars, arg>>

\* await client.query('BEGIN')
Begin ==
    /\ res.pc = "begin"
    /\ res' = [res EXCEPT !.log = Append(@, "BEGIN"),
                          !.pc = IF arg.fault = "begin" THEN "catch" ELSE "body"]
    /\ UNCHANGED <<srvVars, concVars, arg>>

\* the statements between BEGIN and COMMIT
Body ==
    /\ res.pc = "body"
    /\ res' =
          IF arg.handler = "main.tsx complete" /\ arg.fault = "questMissing"
          THEN [res EXCEPT !.pc = "finally", !.status = 404]      \* return res.status(404)
          ELSE IF arg.handler = "main.tsx complete"
                  /\ arg.fault \in {"alreadyCompleted", "noStats"}
          THEN [res EXCEPT !.pc = "finally", !.status = 400]      \* return res.status(400)
          ELSE IF arg.fault = "body"
                  \/ (arg.handler = "routes.ts complete" /\ arg.fault = "noStats")
          THEN [res EXCEPT !.pc = "catch"]
          ELSE \* routes.ts complete catches "Quest not found" and goes on with the
               \* fallback reward; it does not read the status of the quest
               [res EXCEPT !.pc = "commit"]
    /\ UNCHANGED <<srvVars, concVars, arg>>

\* await client.query('COMMIT') and the response
Commit ==
    /\ res.pc = "commit"
    /\ res' = IF arg.fault = "commit"
              THEN [res EXCEPT !.log = Append(@, "COMMIT"), !.pc = "catch"]
              ELSE [res EXCEPT !.log = Append(@, "COMMIT"), !.pc = "finally",
                               !.status = IF arg.handler = "routes.ts journals"
                                          THEN 201 ELSE 200]
    /\ UNCHANGED <<srvVars, concVars, arg>>

\* the catch block: ROLLBACK (if (client) where client may be undefined) and 500
Rollback ==
    /\ res.pc = "catch"
    /\ res' = IF res.client = "acquired"
              THEN [res EXCEPT !.log = Append(@, "ROLLBACK"), !.pc = "finally", !.status = 500]
              ELSE [res EXCEPT !.pc = "finally", !.status = 500]
    /\ UNCHANGED <<srvVars, concVars, arg>>

\* the finally block: client.release()
Release ==
    /\ res.pc = "finally"
    /\ res' = IF res.client = "acquired"
              THEN [res EXCEPT !.client = "released", !.releases = @ + 1,
                               !.pc = "done", !.done = TRUE]
              ELSE [res EXCEPT !.pc = "done", !.done = TRUE]
    /\ UNCHANGED <<srvVars, concVars, arg>>

NextConn == Connect \/ Begin \/ Body \/ Commit \/ Rollback \/ Release

SpecConn == InitConn /\ [][NextConn]_vars

----------------------------------------------------------------------------
(* Claims *)

StatInBounds(v) == v # Null /\ v >= MIN_STAT_VALUE * Milli /\ v <= MAX_STAT_VALUE * Milli

\* C1: starting from a character whose stats are all numbers within
\* [MIN_STAT_VALUE, MAX_STAT_VALUE], every stat of the stored character is a number
\* within these bounds after every journal submission and every quest completion.
C1_StatBounds ==
    \A s \in DOMAIN character.stats : StatInBounds(character.stats[s])

\* C2: the character's level after a journal submission or a quest completion is
\* greater than or equal to its level before that call.
C2_LevelNeverDecreases ==
    (last.op # "none" /\ IsNumber(Field(last.before, "level"))
                     /\ IsNumber(Field(character, "level")))
        => character.level >= last.before.level

\* C3: after every journal submission and every quest completion, fallback analysis
\* and fallback reward included, xp is greater than or equal to the xp before the
\* call, and it is a non-negative integer.
C3_XpMonotone ==
    (build = "routes.ts" /\ last.op # "none")
        => /\ IsNumber(Field(character, "xp"))
           /\ Field(character, "xp") >= OrElse(Field(last.before, "xp"), 0)
           /\ Field(character, "xp") % XpDen = 0

\* C4: a completion request for a quest that does not exist is answered with a
\* not-found error and leaves the character unchanged.
C4_MissingQuestIsNotFound ==
    (last.op \in {"complete", "completeRoute"} /\ last.qid \notin DOMAIN quests)
        => (last.status = 404 /\ character = last.before)

\* C5: a quest's status never moves back from completed, and completedAt is set
\* exactly once: no step changes the row of a quest that is already completed.
C5_CompletedOnce ==
    [][\A q \in DOMAIN quests :
          quests[q].status = "completed" => quests'[q] = quests[q]]_vars

\* C6: when two requests on the same character have both finished, under every
\* interleaving of their read and write steps, the stored xp is the initial xp plus
\* the sum of both xp gains.
C6_NoLostUpdate ==
    (\A p \in InFlight : pc[p] = "done" /\ IsNumber(GainOf(p)))
        => OrElse(Field(character, "xp"), 0)
              = OrElse(Field(last.before, "xp"), 0) + GainOf(1) + GainOf(2)

\* C7: every weight calculateStatWeights returns is at most 2.0, for every analysis
\* and every level >= 1.
C7_WeightCap ==
    res.done => \A s \in RpgStats : res.weights[s] <= 2 * WeightDen

\* C8: quest selection never returns a quest whose difficulty is greater than the
\* character's level.
C8_DifficultyGate ==
    res.done => \A k \in 1..Len(res.quests) :
                    QUEST_TEMPLATES[res.quests[k]].difficulty <= arg.level

\* the candidates C9 calls admitted: they pass the difficulty gate and the
\* meetable-requirements filter
Admitted ==
    {i \in 1..Len(QUEST_TEMPLATES) :
        /\ QUEST_TEMPLATES[i].difficulty <= arg.level
        /\ Suitable(QUEST_TEMPLATES[i], arg.stats)}

\* candidate i comes before candidate j: higher score, or the same score and
\* earlier in the input
Precedes(i, j) ==
    LET si == FinalScore(QUEST_TEMPLATES[i], arg.stats)
        sj == FinalScore(QUEST_TEMPLATES[j], arg.stats)
    IN  si > sj \/ (si = sj /\ i < j)

\* C9: the result of quest selection is the first five of the admitted candidates
\* sorted by descending score, ties in input order: it has five quests when at least
\* five candidates are admitted, and no admitted candidate is left out in favour of
\* one that comes after it.
C9_FilterThenTruncate ==
    res.done =>
        LET q == res.quests
            returned == {q[k] : k \in 1..Len(q)}
        IN  /\ returned \subseteq Admitted
            /\ Len(q) = Min(5, Cardinality(Admitted))
            /\ \A k, l \in 1..Len(q) : k < l => Precedes(q[k], q[l])
            /\ \A i \in Admitted \ returned : \A j \in returned : Precedes(j, i)

\* the requirements of template i that the character can meet: the current stat is
\* at least the required value minus 2
Meetable(i) ==
    {s \in DOMAIN QUEST_TEMPLATES[i].statRequirements :
        StatOrZero(arg.stats, s) >= QUEST_TEMPLATES[i].statRequirements[s] - 2}

Discarded(i) == \A k \in 1..Len(res.quests) : res.quests[k] # i

RequirementCount(quest) ==
    IF "statRequirements" \in DOMAIN quest THEN Cardinality(DOMAIN quest.statRequirements) ELSE 0

\* C11: a quest with zero stat requirements, statRequirements absent or empty, is
\* never discarded by the meetable-requirements filter, whatever the stats.
C11_NoRequirementsKept ==
    (res.done /\ RequirementCount(arg.quest) = 0) => res.kept

\* C11 witness: the filter has kept a quest whose statRequirements is present and empty
C11_Witness ==
    /\ res.done
    /\ "statRequirements" \in DOMAIN arg.quest
    /\ DOMAIN arg.quest.statRequirements = {}
    /\ res.kept

\* a character as the data model describes it: a level of at least 1, a
\* non-negative xp, every stat a number within bounds
ValidCharacter(ch) ==
    /\ IsNumber(Field(ch, "level")) /\ Field(ch, "level") >= 1
    /\ IsNumber(Field(ch, "xp")) /\ Field(ch, "xp") >= 0
    /\ \A s \in DOMAIN ch.stats : StatInBounds(ch.stats[s])

\* C12: when the analysis provider fails for a journal submission, the neutral
\* analysis is substituted, the request succeeds, the journal entry is persisted,
\* and the character is valid with xp increased by at least BASE_XP.
C12_FallbackCompleteness ==
    (last.op = "journal" /\ "analysis" \in last.fallbacks)
        => /\ last.status = 201
           /\ journals = last.journalsBefore + 1
           /\ ValidCharacter(character)
           /\ Field(character, "xp") >= OrElse(Field(last.before, "xp"), 0) + BASE_XP * XpDen

\* C13: when the reward provider fails while an existing quest is completed, the
\* request succeeds, the quest is marked completed, and the character receives
\* exactly the fallback reward: round(50 * (1 + level * 0.1)) xp, no stat update
\* and no achievement.
C13_FallbackReward ==
    (last.op \in {"complete", "completeRoute"} /\ last.providerFailed)
        => /\ last.status = 200
           /\ quests[last.qid].status = "completed"
           /\ Field(character, "xp")
                 = OrElse(Field(last.before, "xp"), 0)
                     + XpDen * Round(50 * (10 + OrElse(Field(last.before, "level"), 1)), 10)
           /\ character.stats = last.before.stats
           /\ AchievementsOf(character) = AchievementsOf(last.before)

\* C14: the quest generation provider is called at most 3 times for one journal
\* submission; when it fails every time, the waits between the attempts are 1 s and
\* then 2 s with none after the last attempt, and the submission still succeeds with
\* the journal entry saved and no generated quest.
C14_BoundedRetry ==
    /\ last.op = "journal" => last.attempts <= 3
    /\ (last.op = "journal" /\ "generation" \in last.fallbacks)
          => /\ last.attempts = 3
             /\ last.delays = <<1000, 2000>>
             /\ last.status = 201
             /\ journals = last.journalsBefore + 1
             /\ last.generated = 0

\* C14 witness: a journal submission whose quest generation failed at every attempt
C14_Witness ==
    /\ last.op = "journal"
    /\ "generation" \in last.fallbacks
    /\ Len(last.delays) = 2
    /\ journals = last.journalsBefore + 1

\* x brought into [lo, hi]
Bounded(lo, hi, x) == IF x < lo THEN lo ELSE IF x > hi THEN hi ELSE x

\* the reward and the quests made of a delivered result have its out-of-range xp
\* brought into [50, 200] and keep what else was delivered
RewardClamped ==
    /\ ~res.rejected
    /\ res.value.xpGained = Bounded(50 * XpDen, 200 * XpDen, arg.raw.xpGained)
    /\ res.value.achievements = arg.raw.achievements
    /\ DOMAIN res.value.statUpdates = DOMAIN arg.raw.statUpdates

QuestsClamped ==
    /\ Len(res.value) = Len(arg.raw)
    /\ \A i \in 1..Len(arg.raw) :
          /\ res.value[i].xpReward = Bounded(50, 200, arg.raw[i].xpReward)
          /\ res.value[i].title = arg.raw[i].title

InUnitRange(score) == 0 <= score.num /\ score.num <= score.den

\* C16: each of the achievability, growthPotential and balance scores attached to a
\* quest as metadata lies within [0, 1], for every quest and every stat set.
C16_ScoresInUnitRange ==
    res.done => /\ InUnitRange(res.metadata.achievability)
                /\ InUnitRange(res.metadata.growthPotential)
                /\ InUnitRange(res.metadata.balance)

\* the scores of client/src/lib/storage.ts alone
ClientScoresInUnitRange == (res.done /\ res.by = "storage.ts") => C16_ScoresInUnitRange

Untimed(achievements) ==
    [i \in 1..Len(achievements) |->
        [f \in DOMAIN achievements[i] \ {"timestamp"} |-> achievements[i][f]]]

\* the number of achievements of the stored character within the last 7 days at time t
RecentAt(t) ==
    Cardinality({i \in 1..Len(AchievementsOf(character)) :
                    t - AchievementsOf(character)[i].timestamp <= 7})

\* C18 as stated: the same analysis applied to the same character state at two
\* wall-clock times yields the same xp, level and stats; only the timestamps of the
\* appended achievements may differ.
C18_TimeIndependent ==
    res.done =>
        /\ res.first.xp = res.second.xp
        /\ res.first.level = res.second.level
        /\ res.first.stats = res.second.stats
        /\ Untimed(res.first.achievements) = Untimed(res.second.achievements)

\* C18 amended: the stats and the achievements without their timestamps are the same
\* at both times; xp and level are the same when the same number of the character's
\* achievements is within the last 7 days at both times, and otherwise the xp differs
\* by 5 for each achievement that is recent at one time only.
C18_TimeOnlyThroughRecency ==
    res.done =>
        /\ res.first.stats = res.second.stats
        /\ Untimed(res.first.achievements) = Untimed(res.second.achievements)
        /\ res.first.xp - res.second.xp
              = 5 * XpDen * (RecentAt(arg.first) - RecentAt(arg.second))
        /\ RecentAt(arg.first) = RecentAt(arg.second) => res.first.level = res.second.level

\* C18 witness: a character with a recent achievement, updated at two different times
\* at both of which the achievement is recent
C18_Witness ==
    /\ res.done
    /\ arg.first # arg.second
    /\ RecentAt(arg.first) = 1
    /\ RecentAt(arg.second) = 1
    /\ res.first.xp = res.second.xp
    /\ Len(res.first.achievements) > 1

\* C19: the achievement sequence is append-only: a journal submission appends one
\* achievement per insight string (title "New Insight", description the insight), a
\* quest completion one per achievement string of the reward (title the string), in
\* order, after the existing achievements, which are neither removed nor reordered.
C19_AppendOnly ==
    last.op # "none" =>
        LET old == AchievementsOf(last.before)
            new == AchievementsOf(character)
        IN  /\ Len(new) = Len(old) + Len(last.strings)
            /\ \A i \in 1..Len(old) : new[i] = old[i]
            /\ \A i \in 1..Len(last.strings) :
                  IF last.op = "journal"
                  THEN /\ new[Len(old) + i].title = "New Insight"
                       /\ new[Len(old) + i].description = last.strings[i]
                  ELSE new[Len(old) + i].title = last.strings[i]

\* C19 witness: a journal submission with two insights by a character that already
\* had an achievement
C19_Witness ==
    /\ last.op = "journal"
    /\ Len(AchievementsOf(last.before)) >= 1
    /\ Len(last.strings) = 2
    /\ Len(AchievementsOf(character)) >= 3

\* C20: a successful response carries a partial-success warning exactly when the
\* request used a fallback path: the neutral analysis, quest generation given up
\* after its retries, or the fallback reward.
C20_WarningIffFallback ==
    (last.op # "none" /\ last.status \in {200, 201})
        => (last.warning <=> last.fallbacks # {})

\* the example of the specification: the level 1 character without xp, with six stats
\* at 1 and no achievements, given ExampleAnalysis
ExampleApplied ==
    res.done /\ character = RpgCharacter /\ arg.analysis = ExampleAnalysis

\* C21: for the level 1 character with xp 0, all stats 1 and no achievements, the
\* analysis with statChanges {constitution: 1}, a positive mood, no growth areas, one
\* insight and one skill improved gives xp 73 and level 1
C21_ExampleXp73 ==
    ExampleApplied => res.first.xp = 73 * XpDen /\ res.first.level = 1

\* C21 as the code computes it: base 50 + insight 5 + skill 8 with no growth bonus
\* gives xp 63 and level 1, at whatever time the entry is submitted
C21_ExampleXp63 ==
    ExampleApplied =>
        /\ res.first.xp = 63 * XpDen /\ res.first.level = 1
        /\ res.second.xp = 63 * XpDen /\ res.second.level = 1

C21_Witness ==
    ExampleApplied /\ res.first.xp = 63 * XpDen /\ arg.first # arg.second

\* the quest that requires wisdom 5 and rewards nothing, scored by the functions of
\* client/src/lib/storage.ts for a character whose wisdom is 2
ExampleScored ==
    /\ res.done /\ res.by = "storage.ts"
    /\ arg.quest = ExampleQuest
    /\ StatOrZero(arg.stats, "wisdom") = 2

\* num/den = p/q
IsRatio(score, p, q) == score.num * q = p * score.den

\* the numerator of a score over 600, a multiple of the denominators of the three scores
Over600(score) == score.num * (600 \div score.den)

RetriedSoFar ==
    /\ res.calls <= arg.maxRetries
    /\ \A i \in 1..(res.calls - 1) : arg.outcomes[i] \notin {Resolved} \cup FatalStatuses
    /\ Len(res.delays) = (IF res.done \/ res.waiting THEN res.calls - 1 ELSE res.calls)
    /\ \A i \in 1..Len(res.delays) : res.delays[i] = baseDelay * Pow(2, i - 1)

\* the outcome of the last call of a finished withRetry
LastOutcome == arg.outcomes[res.calls]

\* C23: withRetry calls operation at most maxRetries times and terminates; status 401
\* or 500 ends it at once with an OpenAIError; any other failure is followed by a wait of
\* baseDelay * 2^attempt and a new attempt unless it was the last attempt, after which
\* the last error is thrown; the first success is returned and no later call is made
C23_LastErrorThrown ==
    /\ [](/\ RetriedSoFar
          /\ res.done =>
                /\ res.calls >= 1
                /\ LastOutcome = Resolved => res.result = "returned"
                /\ LastOutcome \in FatalStatuses => res.result = "OpenAIError"
                /\ LastOutcome \notin {Resolved} \cup FatalStatuses =>
                      res.calls = arg.maxRetries /\ res.result = "lastError")
    /\ <>res.done

\* C23 as the code behaves: after the last attempt an error with another status than
\* 401, 429, 500 and 503 is thrown as an OpenAIError with code API_ERROR; the last error
\* itself is thrown for 429, 503 and an error without status
C23_LastErrorOrApiError ==
    /\ [](/\ RetriedSoFar
          /\ res.done =>
                /\ res.calls >= 1
                /\ LastOutcome = Resolved => res.result = "returned"
                /\ LastOutcome \in FatalStatuses => res.result = "OpenAIError"
                /\ LastOutcome \notin {Resolved} \cup FatalStatuses =>
                      /\ res.calls = arg.maxRetries
                      /\ IF LastOutcome \in {NoStatus, 429, 503}
                         THEN res.result = "lastError"
                         ELSE res.result = "OpenAIError" /\ res.code = "API_ERROR")
    /\ <>res.done

C23_Witness ==
    /\ res.done /\ arg.maxRetries = 3 /\ res.calls = 3
    /\ res.delays = <<1000, 2000>>
    /\ LastOutcome = 400 /\ res.code = "API_ERROR"

\* the positions (storyline, node) at which quest id occurs in the result
PlacesOf(id) ==
    {p \in {<<s, k>> : s \in 1..Len(res.storylines), k \in 1..MaxQuestList + 1} :
        /\ p[2] <= Len(res.storylines[p[1]].nodes)
        /\ res.storylines[p[1]].nodes[p[2]].questId = id}

\* C24: processStorylines puts each quest in exactly one storyline, that of its
\* category; the nodes of a storyline are in non-decreasing difficulty; adjacent nodes
\* a, b have a.nextQuests = [b.questId] and b.previousQuests = [a.questId]; the first
\* node has no previous quest, the last no next quest; currentNode is the first node
C24_StorylineChains ==
    res.done =>
        /\ \A i \in 1..Len(arg.quests) :
              /\ Cardinality(PlacesOf(i)) = 1
              /\ \A p \in PlacesOf(i) :
                    res.storylines[p[1]].category = arg.quests[i].category
        /\ \A s \in 1..Len(res.storylines) :
              LET nodes == res.storylines[s].nodes
              IN  /\ Len(nodes) >= 1
                  /\ \A k \in 1..(Len(nodes) - 1) :
                        /\ arg.quests[nodes[k].questId].difficulty
                              <= arg.quests[nodes[k + 1].questId].difficulty
                        /\ nodes[k].nextQuests = <<nodes[k + 1].questId>>
                        /\ nodes[k + 1].requirements.previousQuests = <<nodes[k].questId>>
                  /\ nodes[1].requirements.previousQuests = <<>>
                  /\ nodes[Len(nodes)].nextQuests = <<>>
                  /\ res.storylines[s].currentNode = nodes[1].questId

\* a storyline of three quests given in another order than that of their difficulty
C24_Witness ==
    /\ res.done
    /\ \E s \in 1..Len(res.storylines) :
          LET nodes == res.storylines[s].nodes
          IN  /\ Len(nodes) = 3
              /\ nodes[1].questId > nodes[2].questId
              /\ nodes[2].nextQuests = <<nodes[3].questId>>

\* the quests that precede quest id in the storyline of its category
PreviousQuestsOf(id) ==
    LET storylines == processStorylines(QuestsOf(arg.quests, arg.requirements))
        place == CHOOSE p \in {<<s, k>> : s \in 1..Len(storylines), k \in 1..MaxChain + 1} :
                    /\ p[2] <= Len(storylines[p[1]].nodes)
                    /\ storylines[p[1]].nodes[p[2]].questId = id
    IN  storylines[place[1]].nodes[place[2]].requirements.previousQuests

\* the three checks of availability for the quest that was asked about
AllChecksPass ==
    /\ arg.quests[res.quest].difficulty <= arg.characterLevel
    /\ UnmetStats(arg.requirements, arg.characterStats) = {}
    /\ AllCompleted(PreviousQuestsOf(res.quest), arg.completedQuests)

\* C25: isQuestAvailable returns false for a quest whose storyline predecessor is not
\* completed, whose difficulty exceeds the character level, or one of whose stat
\* requirements is unmet; it returns true only when all three checks pass
C25_AvailableIffAllChecks ==
    (res.done /\ res.by = "isQuestAvailable") => (res.available <=> AllChecksPass)

\* isNodeAvailable applies the three checks to a node of the processed storylines
NodeAvailableIffAllChecks ==
    (res.done /\ res.by = "isNodeAvailable") => (res.available <=> AllChecksPass)

\* C26: over every sequence of completion requests for the same quest the reward is
\* applied to the character at most once: a completion request for a quest that is
\* already completed leaves the character as it is
C26_RewardedOnce ==
    [][(/\ calls' = calls + 1
        /\ last'.op \in {"complete", "completeRoute"}
        /\ last'.qid \in DOMAIN quests
        /\ quests[last'.qid].status = "completed")
          => character' = character]_vars

\* C27: an analysis whose statChanges are all 0, in particular the neutral fallback
\* analysis, leaves every stat of the character unchanged, for six-attribute characters
\* and for characters with the stats wellness, social, growth and achievement
C27_ZeroChangeKeepsStats ==
    (last.op = "journal" /\ "analysis" \in last.fallbacks)
        => character.stats = last.before.stats

\* BEGIN was sent on the connection and neither COMMIT nor ROLLBACK after it
OpenTransaction ==
    \E i \in 1..Len(res.log) :
        /\ res.log[i] = "BEGIN"
        /\ \A j \in (i + 1)..Len(res.log) : res.log[j] \notin {"COMMIT", "ROLLBACK"}

\* C28: in every execution of the journal and completion handlers, early returns and
\* thrown errors included, a connection on which BEGIN was issued receives COMMIT or
\* ROLLBACK before it is released, and each acquired connection is released exactly once
C28_TransactionClosed ==
    /\ res.releases <= 1
    /\ res.client = "released" => ~OpenTransaction
    /\ (res.pc = "done" /\ res.client # "none") => (res.client = "released" /\ res.releases = 1)

\* the handlers of server/routes.ts and server/routes/journals.ts close the transaction
ServerHandlersCloseTransaction ==
    arg.handler # "main.tsx complete" => C28_TransactionClosed

\* the difficulties that generateQuests stores
QuestDifficulties == 1..5

StatsWithinTen(ch) ==
    \A s \in DOMAIN ch.stats :
        ch.stats[s] # Null /\ ch.stats[s] >= 1 * Milli /\ ch.stats[s] <= 10 * Milli

\* C30: for a character whose stats are within [1, 10], a quest completion never
\* decreases a stat: every stat after the completion is a number greater than or equal
\* to its value before, also under the fallback reward
C30_StatsNeverDecrease ==
    (last.op \in {"complete", "completeRoute"} /\ last.status = 200
       /\ StatsWithinTen(last.before))
        => \A s \in DOMAIN last.before.stats :
              /\ s \in DOMAIN character.stats
              /\ character.stats[s] # Null
              /\ character.stats[s] >= last.before.stats[s]

====
